---- MODULE Spec2Model ----
(***************************************************************************)
(* A model of lia_compiler.js: the lexer (tokenize), the recursive-descent *)
(* parser (the Parser prototype) and the AST to Scratch block generator   *)
(* (generateProject).  Source text is a sequence of one-character strings, *)
(* a JavaScript value is a record tagged with its typeof, and the three    *)
(* stages are pure operators applied by the actions Tokenize, Parse and    *)
(* Generate, in the order main() calls them.                               *)
(***************************************************************************)
EXTENDS Integers, Sequences, FiniteSets, TLC

(* ------------------------------------------------------------------ *)
(* JavaScript values                                                    *)
(* ------------------------------------------------------------------ *)

\* undefined: a missing property, an array index out of range
Undefined == [typeof |-> "undefined"]

\* a JS number; frac holds the digits after the decimal point, without
\* trailing zeros, so that 0 is Num(0, <<>>)
Num(whole, frac) == [typeof |-> "number", whole |-> whole, frac |-> frac]

Whole(n) == Num(n, <<>>)

\* a JS string, as its sequence of characters
Str(chars) == [typeof |-> "string", chars |-> chars]

\* ToBoolean: undefined, 0 and "" are falsy
Truthy(x) ==
  CASE x.typeof = "undefined" -> FALSE
    [] x.typeof = "number" -> ~(x.whole = 0 /\ x.frac = <<>>)
    [] x.typeof = "string" -> x.chars # <<>>

\* a || b
OrElse(a, b) == IF Truthy(a) THEN a ELSE b

\* a === b on the values above
StrictEq(a, b) ==
  /\ a.typeof = b.typeof
  /\ CASE a.typeof = "undefined" -> TRUE
       [] a.typeof = "number" -> a.whole = b.whole /\ a.frac = b.frac
       [] a.typeof = "string" -> a.chars = b.chars

\* arr[i] with i counted from 0
At(arr, i) == IF i + 1 <= Len(arr) THEN arr[i + 1] ELSE Undefined

(* ------------------------------------------------------------------ *)
(* Lexer                                                                *)
(* ------------------------------------------------------------------ *)

Lower == {"a","b","c","d","e","f","g","h","i","j","k","l","m",
          "n","o","p","q","r","s","t","u","v","w","x","y","z"}
Upper == {"A","B","C","D","E","F","G","H","I","J","K","L","M",
          "N","O","P","Q","R","S","T","U","V","W","X","Y","Z"}
Digit == {"0","1","2","3","4","5","6","7","8","9"}
Quote == "\""

\* [A-Za-z_]
IdentStart(c) == c \in Lower \cup Upper \cup {"_"}
\* [A-Za-z0-9_\.\"]
IdentPart(c) == c \in Lower \cup Upper \cup Digit \cup {"_", ".", Quote}
\* \s, for the characters of the model's alphabet
Space(c) == c \in {" ", "\n", "\r", "\t"}
\* the two-character alternatives of the punctuation group, tried first
Punct2 == {<<"=",">">>, <<">","=">>, <<"<","=">>, <<"=","=">>, <<"!","=">>}
\* the one-character alternatives
Punct1 == {"{", "}", "(", ")", ";", ",", ".", "+", "-", "*", "/", ">", "<", "="}

DigitVal(c) ==
  CASE c = "0" -> 0 [] c = "1" -> 1 [] c = "2" -> 2 [] c = "3" -> 3 [] c = "4" -> 4
    [] c = "5" -> 5 [] c = "6" -> 6 [] c = "7" -> 7 [] c = "8" -> 8 [] c = "9" -> 9

\* the first position >= p (from 1) whose character fails Pred, or Len+1
RECURSIVE SkipSpace(_, _)
SkipSpace(input, p) ==
  IF p <= Len(input) /\ Space(input[p]) THEN SkipSpace(input, p + 1) ELSE p

RECURSIVE SkipIdent(_, _)
SkipIdent(input, p) ==
  IF p <= Len(input) /\ IdentPart(input[p]) THEN SkipIdent(input, p + 1) ELSE p

RECURSIVE SkipDigits(_, _)
SkipDigits(input, p) ==
  IF p <= Len(input) /\ input[p] \in Digit THEN SkipDigits(input, p + 1) ELSE p

RECURSIVE SkipNonQuote(_, _)
SkipNonQuote(input, p) ==
  IF p <= Len(input) /\ input[p] # Quote THEN SkipNonQuote(input, p + 1) ELSE p

\* Number(m[4]) for the integer digits ds
RECURSIVE DigitsValue(_)
DigitsValue(ds) ==
  IF ds = <<>> THEN 0
  ELSE 10 * DigitsValue(SubSeq(ds, 1, Len(ds) - 1)) + DigitVal(ds[Len(ds)])

\* the fraction digits with the trailing zeros dropped: 1.50 is 1.5
RECURSIVE StripZeros(_)
StripZeros(ds) ==
  IF ds # <<>> /\ ds[Len(ds)] = "0" THEN StripZeros(SubSeq(ds, 1, Len(ds) - 1)) ELSE ds

ToNumber(whole, frac) == Num(DigitsValue(whole), StripZeros(frac))

\* One sticky match of the token regex at position p (from 1): [ok, token, end],
\* end being re.lastIndex + 1. The four groups are tried in the regex's order,
\* each between two \s*.
Match(input, p) ==
  LET q == SkipSpace(input, p)
      n == Len(input)
  IN
  IF q > n THEN [ok |-> FALSE]
  ELSE IF q + 1 <= n /\ <<input[q], input[q + 1]>> \in Punct2
  THEN [ok |-> TRUE,
        token |-> [type |-> "punct", value |-> Str(<<input[q], input[q + 1]>>)],
        end |-> SkipSpace(input, q + 2)]
  ELSE IF input[q] \in Punct1
  THEN [ok |-> TRUE,
        token |-> [type |-> "punct", value |-> Str(<<input[q]>>)],
        end |-> SkipSpace(input, q + 1)]
  ELSE IF IdentStart(input[q])
  THEN LET e == SkipIdent(input, q + 1)
       IN [ok |-> TRUE,
           token |-> [type |-> "ident", value |-> Str(SubSeq(input, q, e - 1))],
           end |-> SkipSpace(input, e)]
  ELSE IF input[q] = Quote
  THEN LET e == SkipNonQuote(input, q + 1)
       IN IF e <= n
          THEN [ok |-> TRUE,
                \* m[3].slice(1, -1)
                token |-> [type |-> "string", value |-> Str(SubSeq(input, q + 1, e - 1))],
                end |-> SkipSpace(input, e + 1)]
          ELSE [ok |-> FALSE]
  ELSE IF input[q] \in Digit
  THEN LET e == SkipDigits(input, q + 1)
           f == IF e + 1 <= n /\ input[e] = "." /\ input[e + 1] \in Digit
                THEN SkipDigits(input, e + 1) ELSE e
       IN [ok |-> TRUE,
           token |-> [type |-> "number",
                      value |-> ToNumber(SubSeq(input, q, e - 1),
                                         IF f > e THEN SubSeq(input, e + 1, f - 1) ELSE <<>>)],
           end |-> SkipSpace(input, f)]
  ELSE [ok |-> FALSE]

EofToken == [type |-> "eof", value |-> Undefined]

\* the while loop of tokenize from position p with the tokens pushed so far
RECURSIVE TokenizeFrom(_, _, _)
TokenizeFrom(input, p, tokens) ==
  IF p > Len(input) THEN [ok |-> TRUE, tokens |-> Append(tokens, EofToken)]
  ELSE LET m == Match(input, p)
       IN IF m.ok THEN TokenizeFrom(input, m.end, Append(tokens, m.token))
          ELSE IF Space(input[p]) THEN TokenizeFrom(input, p + 1, tokens)
          ELSE [ok |-> FALSE, tokens |-> <<>>]

tokenize(input) == TokenizeFrom(input, 1, <<>>)


(* ------------------------------------------------------------------ *)
(* Parser                                                               *)
(* ------------------------------------------------------------------ *)

\* the identifiers the parser and the generator compare against
kw_on == <<"o","n">>
kw_start == <<"s","t","a","r","t">>
kw_key == <<"k","e","y">>
kw_click == <<"c","l","i","c","k">>
kw_backdrop == <<"b","a","c","k","d","r","o","p">>
kw_repeat == <<"r","e","p","e","a","t">>
kw_loop == <<"l","o","o","p">>
kw_if == <<"i","f">>
kw_else == <<"e","l","s","e">>
kw_await == <<"a","w","a","i","t">>
kw_until == <<"u","n","t","i","l">>
kw_for == <<"f","o","r">>
kw_move == <<"m","o","v","e">>
kw_turn == <<"t","u","r","n">>
kw_say == <<"s","a","y">>
kw_wait == <<"w","a","i","t">>
kw_right == <<"r","i","g","h","t">>
kw_lef == <<"l","e","f">>
kw_left == <<"l","e","f","t">>

\* this.tokens[pos] exists (pos counted from 0, as in the source)
InRange(toks, pos) == pos < Len(toks)

\* this.tokens[pos], for a pos in range
Tok(toks, pos) == toks[pos + 1]

\* t.type === 'punct' && t.value === v
IsPunct(t, v) == t.type = "punct" /\ t.value.chars = v

\* t.type === 'ident' && t.value === v
IsIdent(t, v) == t.type = "ident" /\ t.value.chars = v

\* the three ways a parsing function ends: it returns, it throws one of the
\* parser's own errors (throw new Error(msg ...), got being the token the
\* message shows or the one that was read), or it reads a property of
\* undefined, which raises a TypeError. blocks counts the parseBlock calls
\* the error passed through on its way up.
Ok(pos, node) == [st |-> "ok", pos |-> pos, node |-> node]
Throw(msg, got) == [st |-> "throw", msg |-> msg, got |-> got, blocks |-> 0]
TypeErr(pos) == [st |-> "typeerror", pos |-> pos, blocks |-> 0]

\* What follows a call that returned: r when the call threw, K(r) otherwise
Then(r, K(_)) == IF r.st # "ok" THEN r ELSE K(r)

\* this.tokens[pos] read for one of its properties: K(token), or the TypeError
\* of reading a property of undefined when pos is past the last token
Read(toks, pos, K(_)) == IF ~InRange(toks, pos) THEN TypeErr(pos) ELSE K(Tok(toks, pos))

\* expect(type, val): the token is returned in node
Expect(toks, pos, type, val) ==
  Read(toks, pos, LAMBDA t :
    IF t.type # type \/ t.value.chars # val THEN Throw("Expected", t) ELSE Ok(pos + 1, t))

\* the condition loop of parseIf and parseAwait: every token up to the next ")"
\* is pushed, the end-of-input token included
RECURSIVE CondLoop(_, _, _)
CondLoop(toks, pos, condTokens) ==
  Read(toks, pos, LAMBDA t :
    IF IsPunct(t, <<")">>) THEN Ok(pos, condTokens)
    ELSE CondLoop(toks, pos + 1, Append(condTokens, t)))

\* condTokens.map(t => t.value): the pieces that join(' ') puts together
ConditionOf(condTokens) == [i \in 1..Len(condTokens) |-> condTokens[i].value]

Null == [typeof |-> "null"]
Array(items) == [typeof |-> "array", items |-> items]

\* the argument loop of parseSimple
RECURSIVE ArgLoop(_, _, _)
ArgLoop(toks, pos, args) ==
  Read(toks, pos, LAMBDA t :
    IF IsPunct(t, <<")">>) THEN Ok(pos, args)
    ELSE IF t.type \in {"number", "string", "ident"}
    THEN Read(toks, pos + 1, LAMBDA c :
           ArgLoop(toks, IF IsPunct(c, <<",">>) THEN pos + 2 ELSE pos + 1,
                   Append(args, t.value)))
    ELSE Throw("Unexpected arg token", t))

\* the semicolon that ends parseSimple, for the node built
Semicolon(toks, pos, node) ==
  Read(toks, pos, LAMBDA t :
    IF IsPunct(t, <<";">>) THEN Ok(pos + 1, node)
    ELSE Throw("Expected semicolon after statement", t))

\* the for suffix of parseSimple: the node, with for set when the suffix is there
ForSuffix(toks, pos, node) ==
  Read(toks, pos, LAMBDA t :
    IF IsIdent(t, kw_for)
    THEN Then(Expect(toks, pos + 1, "punct", <<"(">>), LAMBDA e1 :
         Read(toks, e1.pos, LAMBDA n :
           IF n.type # "number" THEN Throw("Expected number in for", n)
           ELSE Then(Expect(toks, e1.pos + 1, "punct", <<")">>), LAMBDA e2 :
                Ok(e2.pos, [node EXCEPT !.for = n.value]))))
    ELSE Ok(pos, node))

\* the argument list of parseSimple: the node, with its args when a "(" follows
Arguments(toks, pos, node) ==
  Read(toks, pos, LAMBDA t :
    IF IsPunct(t, <<"(">>)
    THEN Then(ArgLoop(toks, pos + 1, <<>>), LAMBDA a :
         Then(Expect(toks, a.pos, "punct", <<")">>), LAMBDA e :
         Ok(e.pos, [node EXCEPT !.args = a.node])))
    ELSE Ok(pos, node))

parseSimple(toks, pos) ==
  Then(Arguments(toks, pos + 1,
                 [type |-> "Call", name |-> Tok(toks, pos).value, args |-> <<>>,
                  for |-> Undefined]), LAMBDA a :
  Then(ForSuffix(toks, a.pos, a.node), LAMBDA f :
  Semicolon(toks, f.pos, f.node)))

\* "(" name ")" ";" of the key and backdrop events; the name token is returned
EventArg(toks, pos, msg) ==
  Then(Expect(toks, pos, "punct", <<"(">>), LAMBDA e1 :
  Read(toks, e1.pos, LAMBDA a :
    IF a.type # "ident" /\ a.type # "string" THEN Throw(msg, a)
    ELSE Then(Expect(toks, e1.pos + 1, "punct", <<")">>), LAMBDA e2 :
         Then(Expect(toks, e2.pos, "punct", <<";">>), LAMBDA e3 :
         Ok(e3.pos, a)))))

\* ";" of the start and click events
PlainEvent(toks, pos, kind) ==
  Then(Expect(toks, pos, "punct", <<";">>), LAMBDA e :
  Ok(e.pos, [type |-> "Event", kind |-> kind]))

parseEvent(toks, pos) ==
  Then(Expect(toks, pos, "ident", kw_on), LAMBDA e0 :
  Read(toks, e0.pos, LAMBDA t :
    IF IsIdent(t, kw_start) THEN PlainEvent(toks, e0.pos + 1, "start")
    ELSE IF IsIdent(t, kw_key)
    THEN Then(EventArg(toks, e0.pos + 1, "Expected key"), LAMBDA a :
         Ok(a.pos, [type |-> "Event", kind |-> "key", key |-> a.node.value]))
    ELSE IF IsIdent(t, kw_click) THEN PlainEvent(toks, e0.pos + 1, "click")
    ELSE IF IsIdent(t, kw_backdrop)
    THEN Then(EventArg(toks, e0.pos + 1, "Expected string"), LAMBDA a :
         Ok(a.pos, [type |-> "Event", kind |-> "backdrop", name |-> a.node.value]))
    ELSE Throw("Unknown event", t)))

RECURSIVE parseStatement(_, _)

\* the loop of parseBlock, with the statements pushed so far
RECURSIVE parseBlockLoop(_, _, _)

\* a loop of parseBlock that takes the end of the input for the end of the
\* block and returns the statements pushed so far
parseBlockLoop_eofCloses(toks, pos, stmts) ==
  Read(toks, pos, LAMBDA t :
    IF IsPunct(t, <<"}">>) THEN Ok(pos + 1, stmts)
    ELSE IF t.type = "eof" THEN Ok(pos, stmts)
    ELSE Then(parseStatement(toks, pos), LAMBDA s :
         parseBlockLoop(toks, s.pos, Append(stmts, s.node))))

parseBlockLoop(toks, pos, stmts) ==
  Read(toks, pos, LAMBDA t :
    IF IsPunct(t, <<"}">>) THEN Ok(pos + 1, stmts)
    ELSE IF t.type = "eof" THEN Throw("Unclosed block", t)
    ELSE Then(parseStatement(toks, pos), LAMBDA s :
         parseBlockLoop(toks, s.pos, Append(stmts, s.node))))

\* an error leaving a parseBlock call
InBlock(r) == IF r.st # "ok" THEN [r EXCEPT !.blocks = @ + 1] ELSE r

parseBlock(toks, pos) == InBlock(parseBlockLoop(toks, pos, <<>>))

\* "{" block
BracedBlock(toks, pos) ==
  Then(Expect(toks, pos, "punct", <<"{">>), LAMBDA e : parseBlock(toks, e.pos))

parseRepeat(toks, pos) ==
  Then(Expect(toks, pos, "ident", kw_repeat), LAMBDA e0 :
  Then(Expect(toks, e0.pos, "punct", <<"(">>), LAMBDA e1 :
  Read(toks, e1.pos, LAMBDA num :
    IF num.type # "number" THEN Throw("Expected number in repeat", num)
    ELSE Then(Expect(toks, e1.pos + 1, "punct", <<")">>), LAMBDA e2 :
         Then(BracedBlock(toks, e2.pos), LAMBDA b :
         Ok(b.pos, [type |-> "Repeat", count |-> num.value, body |-> b.node]))))))

\* "(" condition ")" of parseIf and parseAwait; the condition is returned
ParenCondition(toks, pos) ==
  Then(Expect(toks, pos, "punct", <<"(">>), LAMBDA e1 :
  Then(CondLoop(toks, e1.pos, <<>>), LAMBDA c :
  Then(Expect(toks, c.pos, "punct", <<")">>), LAMBDA e2 :
  Ok(e2.pos, ConditionOf(c.node)))))

\* the else branch of parseIf, for the node built so far
ElseBranch(toks, pos, node) ==
  Read(toks, pos, LAMBDA t :
    IF IsIdent(t, kw_else)
    THEN Then(BracedBlock(toks, pos + 1), LAMBDA a :
         Ok(a.pos, [node EXCEPT !.alternate = Array(a.node)]))
    ELSE Ok(pos, node))

parseIf(toks, pos) ==
  Then(Expect(toks, pos, "ident", kw_if), LAMBDA e0 :
  Then(ParenCondition(toks, e0.pos), LAMBDA c :
  Then(BracedBlock(toks, c.pos), LAMBDA b :
  ElseBranch(toks, b.pos, [type |-> "If", condition |-> c.node,
                           consequent |-> b.node, alternate |-> Null]))))

parseAwait(toks, pos) ==
  Then(Expect(toks, pos, "ident", kw_await), LAMBDA e0 :
  Read(toks, e0.pos, LAMBDA t :
    IF IsIdent(t, kw_until)
    THEN Then(ParenCondition(toks, e0.pos + 1), LAMBDA c :
         Then(Expect(toks, c.pos, "punct", <<";">>), LAMBDA e :
         Ok(e.pos, [type |-> "AwaitUntil", condition |-> c.node])))
    ELSE Throw("Unknown await form", t)))

\* the loop statement, parsed in parseStatement itself
parseLoop(toks, pos) ==
  Then(BracedBlock(toks, pos + 1), LAMBDA b :
  Ok(b.pos, [type |-> "LoopStatement", body |-> b.node]))

parseStatement(toks, pos) ==
  Read(toks, pos, LAMBDA t :
    IF t.type = "ident"
    THEN IF t.value.chars = kw_on THEN parseEvent(toks, pos)
         ELSE IF t.value.chars = kw_repeat THEN parseRepeat(toks, pos)
         ELSE IF t.value.chars = kw_loop THEN parseLoop(toks, pos)
         ELSE IF t.value.chars = kw_if THEN parseIf(toks, pos)
         ELSE IF t.value.chars = kw_await THEN parseAwait(toks, pos)
         ELSE parseSimple(toks, pos)
    ELSE IF IsPunct(t, <<";">>) THEN Ok(pos + 1, [type |-> "Empty"])
    ELSE Throw("Unexpected token in statement", t))

\* the loop of parseProgram, with the statements pushed so far
RECURSIVE parseProgramLoop(_, _, _)
parseProgramLoop(toks, pos, body) ==
  Read(toks, pos, LAMBDA t :
    IF t.type = "eof" THEN Ok(pos, [type |-> "Program", body |-> body])
    ELSE Then(parseStatement(toks, pos), LAMBDA s :
         parseProgramLoop(toks, s.pos, Append(body, s.node))))

parseProgram(toks) == parseProgramLoop(toks, 0, <<>>)

(* ------------------------------------------------------------------ *)
(* AST -> Scratch blocks                                                *)
(* ------------------------------------------------------------------ *)

\* A version-4 UUID, as its 32 hex digits: head, the number the first 20 write,
\* and rest, the number the other 12 write
Uuid(h, r) == [head |-> h, rest |-> r]

\* uuid.replace(/-/g, '').slice(0, 20)
Slice20(uuid) == uuid.head

\* null, where a block id is expected (a block id is never negative)
NoId == -1

\* {}
EmptyObj == <<>>

\* The state of one generateProject call: blocks as in the source; us, the
\* values the coming uuidv4() calls return, and drawn, how many calls were
\* made. The history the properties read: made, what every addBlock call
\* stored, in order; compiled, for every compileStatement call that returned a
\* block, in order, the statement and its place in the tree, the id returned,
\* the number of addBlock calls made by then, the block whose next was set
\* to the id (prev, null when none was), and the loop that made the call.
NewGen(us) ==
  [blocks |-> <<>>, us |-> us, drawn |-> 0, made |-> <<>>, compiled |-> <<>>]

\* uuidv4(): the next value of us (once us is used up, which happens only
\* while the calls are counted, a fixed value)
uuidv4(g) ==
  [g |-> [g EXCEPT !.us = IF g.us = <<>> THEN <<>> ELSE Tail(g.us),
                   !.drawn = g.drawn + 1],
   uuid |-> IF g.us = <<>> THEN Uuid(0, 0) ELSE Head(g.us)]

\* blocks[id] = {...}, for an id that may be in use already
Store(blocks, id, node) ==
  [i \in DOMAIN blocks \cup {id} |-> IF i = id THEN node ELSE blocks[i]]

\* blocks[id] = {opcode, inputs, fields, next, parent}; return id
Put(g, uuid, id, node) ==
  [g |-> [g EXCEPT !.blocks = Store(g.blocks, id, node),
                   !.made = Append(g.made, [uuid |-> uuid, id |-> id, opcode |-> node.opcode,
                                            inputs |-> node.inputs])],
   id |-> id, st |-> "ok"]

addBlock(g, opcode, inputs, fields, next, parent) ==
  Put(uuidv4(g).g, uuidv4(g).uuid, Slice20(uuidv4(g).uuid),
      [opcode |-> opcode, inputs |-> inputs, fields |-> fields,
       next |-> next, parent |-> parent])

\* a Call branch of compileStatement that returns null, without a block, for
\* a turn of a direction it does not know
compileCall_turnSkipped(g, stmt) ==
  LET name == stmt.name.chars
      arg0 == At(stmt.args, 0)
      arg1 == At(stmt.args, 1)
  IN
  IF name = kw_move
  THEN addBlock(g, "motion_movesteps",
                [STEPS |-> <<1, <<4, OrElse(arg0, Whole(10))>>>>], EmptyObj, NoId, NoId)
  ELSE IF name = kw_turn /\ StrictEq(arg0, Str(kw_right))
  THEN addBlock(g, "motion_turnright",
                [DEGREES |-> <<1, <<4, OrElse(arg1, Whole(15))>>>>], EmptyObj, NoId, NoId)
  ELSE IF name = kw_turn /\ (StrictEq(arg0, Str(kw_lef)) \/ StrictEq(arg0, Str(kw_left)))
  THEN addBlock(g, "motion_turnleft",
                [DEGREES |-> <<1, <<4, OrElse(arg1, Whole(15))>>>>], EmptyObj, NoId, NoId)
  ELSE IF name = kw_turn THEN [g |-> g, id |-> NoId, st |-> "ok"]
  ELSE IF name = kw_say
  THEN LET txt == OrElse(arg0, Str(<<>>))
       IN IF Truthy(stmt.for)
          THEN addBlock(g, "looks_sayforsecs",
                        [MESSAGE |-> <<10, txt>>, SECS |-> <<1, <<4, stmt.for>>>>],
                        EmptyObj, NoId, NoId)
          ELSE addBlock(g, "looks_say", [MESSAGE |-> <<10, txt>>], EmptyObj, NoId, NoId)
  ELSE IF name = kw_wait
  THEN addBlock(g, "control_wait",
                [DURATION |-> <<1, <<4, OrElse(arg0, Whole(1))>>>>], EmptyObj, NoId, NoId)
  ELSE addBlock(g, "procedures_call", EmptyObj, EmptyObj, NoId, NoId)

\* the Call branch of compileStatement
compileCall(g, stmt) ==
  LET name == stmt.name.chars
      arg0 == At(stmt.args, 0)
      arg1 == At(stmt.args, 1)
  IN
  IF name = kw_move
  THEN addBlock(g, "motion_movesteps",
                [STEPS |-> <<1, <<4, OrElse(arg0, Whole(10))>>>>], EmptyObj, NoId, NoId)
  ELSE IF name = kw_turn /\ StrictEq(arg0, Str(kw_right))
  THEN addBlock(g, "motion_turnright",
                [DEGREES |-> <<1, <<4, OrElse(arg1, Whole(15))>>>>], EmptyObj, NoId, NoId)
  ELSE IF name = kw_turn /\ (StrictEq(arg0, Str(kw_lef)) \/ StrictEq(arg0, Str(kw_left)))
  THEN addBlock(g, "motion_turnleft",
                [DEGREES |-> <<1, <<4, OrElse(arg1, Whole(15))>>>>], EmptyObj, NoId, NoId)
  ELSE IF name = kw_say
  THEN LET txt == OrElse(arg0, Str(<<>>))
       IN IF Truthy(stmt.for)
          THEN addBlock(g, "looks_sayforsecs",
                        [MESSAGE |-> <<10, txt>>, SECS |-> <<1, <<4, stmt.for>>>>],
                        EmptyObj, NoId, NoId)
          ELSE addBlock(g, "looks_say", [MESSAGE |-> <<10, txt>>], EmptyObj, NoId, NoId)
  ELSE IF name = kw_wait
  THEN addBlock(g, "control_wait",
                [DURATION |-> <<1, <<4, OrElse(arg0, Whole(1))>>>>], EmptyObj, NoId, NoId)
  ELSE addBlock(g, "procedures_call", EmptyObj, EmptyObj, NoId, NoId)

\* the Event branch of compileStatement: a key event matches none of the three
\* returns, nor any later branch, and ends in the final throw
compileEvent(g, stmt) ==
  IF stmt.kind = "start" THEN addBlock(g, "event_whenflagclicked", EmptyObj, EmptyObj, NoId, NoId)
  ELSE IF stmt.kind = "click"
  THEN addBlock(g, "event_whenthisspriteclicked", EmptyObj, EmptyObj, NoId, NoId)
  ELSE IF stmt.kind = "backdrop"
  THEN addBlock(g, "event_whenbackdropswitchesto", [BACKDROP |-> <<10, stmt.name>>],
                EmptyObj, NoId, NoId)
  ELSE [g |-> g, id |-> NoId, st |-> "throw"]

\* the ways compileStatement and compileStatements end: with the id of a block
\* (or null), with {first, last, blocksOrder}, or in the final throw
Compiled(g, id) == [g |-> g, id |-> id, st |-> "ok"]
Unhandled(g) == [g |-> g, id |-> NoId, st |-> "throw"]

\* a container block over a body compiled to bodyFirst: the block is added
\* with SUBSTACK [2, bodyFirst.first], and then
\* if (bodyFirst.blocksOrder.length) blocks[bodyFirst.first].parent = id
Container(bodyFirst, opcode, inputs) ==
  Then(addBlock(bodyFirst.g, opcode,
                inputs @@ [SUBSTACK |-> <<2, bodyFirst.first>>], EmptyObj, NoId, NoId),
       LAMBDA r :
         IF Len(bodyFirst.blocksOrder) # 0
         THEN [r EXCEPT !.g.blocks[bodyFirst.first].parent = r.id]
         ELSE r)

\* if (prevId) blocks[prevId].next = id
Link(g, prevId, id) ==
  IF prevId # NoId THEN [g EXCEPT !.blocks[prevId].next = id] ELSE g

\* the history of a compileStatement call that returned the block id, made
\* by the loop of compileStatements (via "list") or by the top-level loop
\* (via "top")
Record(g, stmt, path, id, prevId, via) ==
  [g EXCEPT !.compiled =
     Append(g.compiled, [path |-> path, stmt |-> stmt, id |-> id, via |-> via,
                         made |-> Len(g.made), prev |-> prevId])]

RECURSIVE compileStatement(_, _, _)

\* the for loop of compileStatements from statement i of the statements at
\* path, acc holding firstId, prevId and order
RECURSIVE compileLoop(_, _, _, _, _)
compileLoop(g, stmts, path, i, acc) ==
  IF i > Len(stmts)
  THEN [g |-> g, st |-> "ok", first |-> acc.first, last |-> acc.last,
        blocksOrder |-> acc.blocksOrder]
  ELSE Then(compileStatement(g, stmts[i], Append(path, i)), LAMBDA r :
         IF r.id = NoId THEN compileLoop(r.g, stmts, path, i + 1, acc)
         ELSE compileLoop(Record(Link(r.g, acc.last, r.id), stmts[i], Append(path, i),
                                 r.id, acc.last, "list"),
                          stmts, path, i + 1,
                          [first |-> IF acc.first = NoId THEN r.id ELSE acc.first,
                           last |-> r.id,
                           blocksOrder |-> Append(acc.blocksOrder, r.id)]))

compileStatements(g, stmts, path) ==
  compileLoop(g, stmts, path, 1, [first |-> NoId, last |-> NoId, blocksOrder |-> <<>>])

\* compileStatement(stmt), for the statement at path
compileStatement(g, stmt, path) ==
  IF stmt.type = "Call" THEN compileCall(g, stmt)
  ELSE IF stmt.type = "Repeat"
  \* const repId = uuidv4()... is drawn and never used
  THEN Then(compileStatements(uuidv4(g).g, stmt.body, path), LAMBDA bodyFirst :
       Container(bodyFirst, "control_repeat", [TIMES |-> <<1, <<4, stmt.count>>>>]))
  ELSE IF stmt.type = "Event" THEN compileEvent(g, stmt)
  ELSE IF stmt.type = "LoopStatement"
  THEN Then(compileStatements(g, stmt.body, path), LAMBDA bodyFirst :
       Container(bodyFirst, "control_forever", EmptyObj))
  ELSE IF stmt.type = "If"
  THEN Then(compileStatements(g, stmt.consequent, path), LAMBDA bodyFirst :
       Container(bodyFirst, "control_if", [CONDITION |-> <<1, stmt.condition>>]))
  ELSE IF stmt.type = "AwaitUntil"
  THEN addBlock(g, "control_wait_until", [CONDITION |-> <<1, stmt.condition>>],
                EmptyObj, NoId, NoId)
  ELSE IF stmt.type = "Empty" THEN Compiled(g, NoId)
  ELSE Unhandled(g)

\* the else branch of the top-level loop: the start hat, and the whole body
\* compiled under it
startScript(g, body, scripts) ==
  Then(addBlock(g, "event_whenflagclicked", EmptyObj, EmptyObj, NoId, NoId), LAMBDA startHat :
  Then(compileStatements(startHat.g, body, <<>>), LAMBDA compiled :
    [g |-> IF compiled.first # NoId
           THEN [compiled.g EXCEPT !.blocks[startHat.id].next = compiled.first]
           ELSE compiled.g,
     scripts |-> scripts, st |-> "ok"]))

\* the top-level loop of generateProject from statement i
RECURSIVE topLoop(_, _, _, _)
topLoop(g, body, i, scripts) ==
  IF i > Len(body) THEN [g |-> g, scripts |-> scripts, st |-> "ok"]
  ELSE IF body[i].type = "Event"
  THEN Then(compileStatement(g, body[i], <<i>>), LAMBDA hatId :
       topLoop(Record(hatId.g, body[i], <<i>>, hatId.id, NoId, "top"), body, i + 1,
               Append(scripts, hatId.id)))
  ELSE startScript(g, body, scripts)

\* generateProject(ast), the uuidv4() calls returning us in turn
generateProject(tree, us) == topLoop(NewGen(us), tree.body, 1, <<>>)

\* the number of uuidv4() calls generateProject(ast) makes
UuidCalls(tree) == generateProject(tree, <<>>).g.drawn

(* ------------------------------------------------------------------ *)
(* Inputs                                                               *)
(* ------------------------------------------------------------------ *)

\* pieces of program text
P_on_start == <<"o", "n", " ", "s", "t", "a", "r", "t", ";">>
P_on_key == <<"o", "n", " ", "k", "e", "y", "(", "a", ")", ";">>
P_move_10 == <<"m", "o", "v", "e", "(", "1", "0", ")", ";">>
P_move_0 == <<"m", "o", "v", "e", "(", "0", ")", ";">>
P_turn_right_15 == <<"t", "u", "r", "n", "(", "r", "i", "g", "h", "t", ",", "1", "5", ")", ";">>
P_turn_up_5 == <<"t", "u", "r", "n", "(", "u", "p", ",", "5", ")", ";">>
P_say_for_0 == <<"s", "a", "y", "(", Quote, "h", "i", Quote, ")", "f", "o", "r", "(", "0", ")", ";">>
P_empty == <<";">>
P_repeat_5 == <<"r", "e", "p", "e", "a", "t", "(", "5", ")", "{">>
P_loop == <<"l", "o", "o", "p", "{">>
P_if_x == <<"i", "f", "(", "x", ")", "{">>
P_close == <<"}">>
P_else == <<"}", "e", "l", "s", "e", "{">>
P_call == <<"x", ";">>
P_call_nosemi == <<"x">>
P_if_open == <<"i", "f", "(", "x">>
P_await_open == <<"a", "w", "a", "i", "t", " ", "u", "n", "t", "i", "l", "(", "x">>
P_args_open == <<"x", "(", "1">>
P_on == <<"o", "n">>

\* whole programs; the first is the usage example of the file header
Example_header ==
  <<"o", "n", " ", "s", "t", "a", "r", "t", ";", "\n", "r", "e", "p", "e", "a", "t", "(", "5", ")", " ", "{", "\n", " ", " ", "m", "o", "v", "e", "(", "1", "0", ")", ";", "\n", " ", " ", "t", "u", "r", "n", " ", "r", "i", "g", "h", "t", "(", "1", "5", ")", ";", "\n", "}", "\n">>
Example_turn_right ==
  <<"t", "u", "r", "n", " ", "r", "i", "g", "h", "t", "(", "1", "5", ")", ";">>
Example_repeat_two ==
  <<"r", "e", "p", "e", "a", "t", "(", "5", ")", "{", "m", "o", "v", "e", "(", "1", "0", ")", ";", "t", "u", "r", "n", "(", "r", "i", "g", "h", "t", ",", "1", "5", ")", ";", "}">>
Example_loop_nested ==
  <<"l", "o", "o", "p", "{", "i", "f", "(", "x", ">", "0", ")", "{", "w", "a", "i", "t", "(", "2", ")", ";", "}", "m", "o", "v", "e", "(", "1", "0", ")", ";", "}">>
Example_turn_between ==
  <<"m", "o", "v", "e", "(", "1", "0", ")", ";", "t", "u", "r", "n", "(", "u", "p", ",", "5", ")", ";", "w", "a", "i", "t", "(", "2", ")", ";", "s", "a", "y", "(", Quote, "h", "i", Quote, ")", ";">>
Example_turn_noargs ==
  <<"m", "o", "v", "e", "(", "1", "0", ")", ";", "t", "u", "r", "n", ";", "m", "o", "v", "e", "(", "0", ")", ";">>
Example_turn_left ==
  <<"t", "u", "r", "n", "(", "l", "e", "f", "t", ",", "0", ")", ";", "t", "u", "r", "n", "(", "l", "e", "f", ")", ";", "t", "u", "r", "n", "(", "r", "i", "g", "h", "t", ")", ";", "t", "u", "r", "n", "(", "5", ",", "r", "i", "g", "h", "t", ")", ";">>
Example_defaults ==
  <<"m", "o", "v", "e", ";", "w", "a", "i", "t", ";", "w", "a", "i", "t", "(", "0", ")", ";", "m", "o", "v", "e", "(", Quote, Quote, ")", ";", "s", "a", "y", ";", "s", "a", "y", "(", Quote, Quote, ")", ";">>
Example_say ==
  <<"s", "a", "y", "(", Quote, "h", "i", Quote, ")", "f", "o", "r", "(", "2", ")", ";", "s", "a", "y", "(", Quote, "h", "i", Quote, ")", ";", "s", "a", "y", "(", Quote, "h", "i", Quote, ")", "f", "o", "r", "(", "0", ".", "5", "0", ")", ";">>
Example_key_between ==
  <<"m", "o", "v", "e", "(", "1", "0", ")", ";", "o", "n", " ", "k", "e", "y", "(", "a", ")", ";", "w", "a", "i", "t", "(", "2", ")", ";">>
Example_events ==
  <<"o", "n", " ", "c", "l", "i", "c", "k", ";", "o", "n", " ", "b", "a", "c", "k", "d", "r", "o", "p", "(", Quote, "b", Quote, ")", ";", "o", "n", " ", "s", "t", "a", "r", "t", ";", "f", "o", "o", "(", "1", ",", "2", ")", ";">>
Example_else ==
  <<"i", "f", "(", "x", ")", "{", "}", "e", "l", "s", "e", "{", "o", "n", " ", "k", "e", "y", "(", "a", ")", ";", "}", "a", "w", "a", "i", "t", " ", "u", "n", "t", "i", "l", "(", "x", "<", "1", ")", ";">>
Example_unclosed_if ==
  <<"i", "f", " ", "(", "x", " ", ">", " ", "0", ")", " ", "{", " ", "s", "a", "y", "(", Quote, "h", "i", Quote, ")", ";">>
Example_lexerror ==
  <<"m", "o", "v", "e", "(", "1", "0", ")", ";", " ", "$">>

Examples ==
  {Example_header,
   Example_turn_right,
   Example_repeat_two,
   Example_loop_nested,
   Example_turn_between,
   Example_turn_noargs,
   Example_turn_left,
   Example_defaults,
   Example_say,
   Example_key_between,
   Example_events,
   Example_else,
   Example_unclosed_if,
   Example_lexerror}

LoweringPhrases ==
  {P_on_start, P_on_key, P_move_10, P_move_0, P_turn_right_15, P_turn_up_5, P_say_for_0, P_empty, P_repeat_5, P_loop, P_if_x, P_close}

ParsingPhrases ==
  {P_loop, P_repeat_5, P_if_x, P_close, P_else, P_call, P_call_nosemi, P_empty,
   P_if_open, P_await_open, P_args_open, P_on}

\* the longest program text, in phrases
MaxPhrases == 3

\* the phrases ps, one space between two
RECURSIVE Join(_)
Join(ps) ==
  IF ps = <<>> THEN <<>>
  ELSE IF Len(ps) = 1 THEN ps[1]
  ELSE ps[1] \o <<" ">> \o Join(Tail(ps))

Texts(phrases) ==
  {Join(ps) : ps \in UNION {[1..k -> phrases] : k \in 0..MaxPhrases}}

\* The runs of n uuidv4() calls, up to a renaming of the ids (only whether two
\* ids are equal matters to the program): a call returns the 20 leading digits
\* of an earlier call, or the least number no call returned yet. The UUIDs of
\* a run differ from one another, in the other 12 digits if not in these.
RECURSIVE HeadRuns(_)
HeadRuns(n) ==
  IF n = 0 THEN {<<>>}
  ELSE UNION {{Append(hs, h) : h \in 0..Cardinality({hs[j] : j \in 1..Len(hs)})} :
               hs \in HeadRuns(n - 1)}

UuidRuns(n) ==
  {[k \in 1..n |-> Uuid(hs[k], Cardinality({j \in 1..(k - 1) : hs[j] = hs[k]}))] :
     hs \in HeadRuns(n)}

VARIABLES phase, src, tokens, error, ast, blocks, scripts, made, compiled

vars == <<phase, src, tokens, error, ast, blocks, scripts, made, compiled>>
Init == /\ phase = "source"
        /\ src \in Texts(LoweringPhrases) \cup Examples
        /\ tokens = <<>>
        /\ error = Null
        /\ ast = Null
        /\ blocks = <<>>
        /\ scripts = <<>>
        /\ made = <<>>
        /\ compiled = <<>>

Tokenize == /\ phase = "source"
            /\ LET r == tokenize(src)
               IN /\ phase' = IF r.ok THEN "tokens" ELSE "lexerror"
                  /\ tokens' = r.tokens
            /\ UNCHANGED <<src, error, ast, blocks, scripts, made, compiled>>

Parse == /\ phase = "tokens"
         /\ LET r == parseProgram(tokens)
            IN /\ phase' = IF r.st = "ok" THEN "parsed" ELSE r.st
               /\ ast' = IF r.st = "ok" THEN r.node ELSE Null
               /\ error' = IF r.st = "ok" THEN Null ELSE r
         /\ UNCHANGED <<src, tokens, blocks, scripts, made, compiled>>

\* generateProject ended in r: it returned, or threw and main's catch exits
Generated(r) == /\ phase' = IF r.st = "ok" THEN "done" ELSE "crash"
                /\ blocks' = r.g.blocks
                /\ scripts' = IF r.st = "ok" THEN r.scripts ELSE <<>>
                /\ made' = r.g.made
                /\ compiled' = r.g.compiled

Generate == /\ phase = "parsed"
            /\ \E us \in UuidRuns(UuidCalls(ast)) : Generated(generateProject(ast, us))
            /\ UNCHANGED <<src, tokens, error, ast>>

Next == Tokenize \/ Parse \/ Generate

Spec == Init /\ [][Next]_vars

\* the same program on the texts that exercise the parser's error paths
InitParsing == /\ phase = "source"
               /\ src \in Texts(ParsingPhrases)
               /\ tokens = <<>>
               /\ error = Null
               /\ ast = Null
               /\ blocks = <<>>
               /\ scripts = <<>>
               /\ made = <<>>
               /\ compiled = <<>>

SpecParsing == InitParsing /\ [][Next]_vars

(* ------------------------------------------------------------------ *)
(* Properties                                                           *)
(* ------------------------------------------------------------------ *)

\* the parser returned a Program
Parsed == phase \in {"parsed", "done", "crash"}
\* the parser ended, one way or another
ParseEnded == phase \in {"parsed", "done", "crash", "throw", "typeerror"}
\* generateProject ended, by returning or by throwing
Lowered == phase \in {"done", "crash"}

IsCall(stmt, name) == stmt.type = "Call" /\ stmt.name.chars = name
IsKeyEvent(stmt) == stmt.type = "Event" /\ stmt.kind = "key"
IsContainer(stmt) == stmt.type \in {"Repeat", "LoopStatement", "If"}
CallNode(name, args) == [type |-> "Call", name |-> Str(name), args |-> args, for |-> Undefined]

\* the statements a container's block is built over
BodyOf(stmt) == IF stmt.type = "If" THEN stmt.consequent ELSE stmt.body

\* every statement of the list stmts and of the bodies below it that
\* compileStatements reaches, with its place in the tree
RECURSIVE Placed(_, _)
Placed(stmts, path) ==
  UNION {{[path |-> Append(path, i), stmt |-> stmts[i]]}
           \cup (IF IsContainer(stmts[i]) THEN Placed(BodyOf(stmts[i]), Append(path, i))
                 ELSE {}) : i \in 1..Len(stmts)}

\* the history of the compileStatement calls for the statement at path
CompiledAt(path) == SelectSeq(compiled, LAMBDA k : k.path = path)

\* the history of the calls the loop of compileStatements made for the list at
\* parent, in order
Siblings(parent) ==
  SelectSeq(compiled, LAMBDA k : /\ k.via = "list"
                                 /\ Len(k.path) = Len(parent) + 1
                                 /\ SubSeq(k.path, 1, Len(parent)) = parent)

\* every block a list produced had the next of the block produced before it in
\* the list set to it, and the first had no block's next set to it
Chained ==
  \A n \in 1..Len(compiled) :
    LET sib == Siblings(SubSeq(compiled[n].path, 1, Len(compiled[n].path) - 1))
    IN \A i \in 1..Len(sib) : sib[i].prev = IF i = 1 THEN NoId ELSE sib[i - 1].id

\* no two addBlock calls got the same id
DistinctIds == \A i, j \in 1..Len(made) : i # j => made[i].id # made[j].id

HeaderTree ==
  [type |-> "Program",
   body |-> << [type |-> "Event", kind |-> "start"],
               [type |-> "Repeat", count |-> Whole(5),
                body |-> << CallNode(kw_move, <<Whole(10)>>),
                            CallNode(kw_turn, <<Str(kw_right), Whole(15)>>) >>] >>]

\* C1: the usage example of the file header, on start; repeat(5) { move(10);
\* turn right(15); }, tokenizes and parses to Event{start} and Repeat{5,
\* [move(10), turn("right", 15)]}, and turn right(15); alone parses to the one
\* Call turn with args ["right", 15].
C1_UsageExampleParses ==
  /\ (src = Example_header /\ ParseEnded) => (Parsed /\ ast = HeaderTree)
  /\ (src = Example_turn_right /\ ParseEnded)
       => (Parsed /\ ast = [type |-> "Program",
                            body |-> <<CallNode(kw_turn, <<Str(kw_right), Whole(15)>>)>>])

ContainerOpcode(stmt) ==
  CASE stmt.type = "Repeat" -> "control_repeat"
    [] stmt.type = "LoopStatement" -> "control_forever"
    [] stmt.type = "If" -> "control_if"

\* the blocks of a container statement and of the statements of its body are
\* linked as C2 states
ContainerLinkage ==
  \A n \in 1..Len(compiled) :
    LET e == compiled[n]
        kids == Siblings(e.path)
    IN IsContainer(e.stmt) =>
         /\ blocks[e.id].opcode = ContainerOpcode(e.stmt)
         /\ Len(e.path) = 1 => blocks[e.id].parent = NoId
         /\ IF kids = <<>>
            THEN /\ blocks[e.id].inputs.SUBSTACK[2] = NoId
                 /\ \A b \in DOMAIN blocks : blocks[b].parent # e.id
            ELSE /\ blocks[e.id].inputs.SUBSTACK[2] = kids[1].id
                 /\ blocks[kids[1].id].parent = e.id
                 /\ \A i \in 1..(Len(kids) - 1) : blocks[kids[i].id].next = kids[i + 1].id
                 /\ blocks[kids[Len(kids)].id].next = NoId

\* C2: lowering a Repeat, LoopStatement or If whose body yields the blocks
\* n1..nk makes one container block whose SUBSTACK is n1, sets n1.parent to the
\* container, links n_i.next to n_(i+1) and leaves n_k.next null; a top-level
\* container has parent null; over a body that yields no block SUBSTACK is
\* null and no block has the container as parent.
C2_ContainerLinkage == phase = "done" => ContainerLinkage

\* The linkage of C2 in the runs in which no two blocks got the same id.
LinkageWithDistinctIds == (phase = "done" /\ DistinctIds) => ContainerLinkage

\* C3: every block made in one compilation has an id no other block of the
\* compilation has, so the mapping holds as many blocks as were made and no
\* block is overwritten.
C3_IdsUnique ==
  Lowered => (DistinctIds /\ Cardinality(DOMAIN blocks) = Len(made))

HasSubstack(b) == blocks[b].opcode \in {"control_repeat", "control_forever", "control_if"}

\* C4: every top-level Event statement gets exactly one hat block, which no
\* block's next or SUBSTACK refers to and whose own next is null, whatever
\* stands before or after it at top level.
C4_EventHatsIsolated ==
  phase = "done" =>
    \A i \in 1..Len(ast.body) :
      ast.body[i].type = "Event" =>
        LET hats == CompiledAt(<<i>>)
        IN /\ Len(hats) = 1
           /\ blocks[hats[1].id].next = NoId
           /\ \A b \in DOMAIN blocks :
                /\ blocks[b].next # hats[1].id
                /\ HasSubstack(b) => blocks[b].inputs.SUBSTACK[2] # hats[1].id

\* a key event stands in the list stmts or in a body, consequent or alternate
\* below it
RECURSIVE ContainsKeyEvent(_)
ContainsKeyEvent(stmts) ==
  \E i \in 1..Len(stmts) :
    \/ IsKeyEvent(stmts[i])
    \/ IsContainer(stmts[i]) /\ ContainsKeyEvent(BodyOf(stmts[i]))
    \/ /\ stmts[i].type = "If"
       /\ stmts[i].alternate.typeof = "array"
       /\ ContainsKeyEvent(stmts[i].alternate.items)

\* C5: lowering a program that holds an Event{key} statement ends without an
\* error, makes no block for that statement, and links the blocks of the
\* statements around it directly.
C5_KeyEventSkipped ==
  (Lowered /\ ContainsKeyEvent(ast.body)) =>
    /\ phase = "done"
    /\ \A n \in 1..Len(compiled) : ~IsKeyEvent(compiled[n].stmt)
    /\ Chained

TurnsRight(stmt) == StrictEq(At(stmt.args, 0), Str(kw_right))
TurnsLeft(stmt) ==
  StrictEq(At(stmt.args, 0), Str(kw_lef)) \/ StrictEq(At(stmt.args, 0), Str(kw_left))

\* the block of a turn statement has the opcode of its direction
TurnOpcodes(other) ==
  \A n \in 1..Len(compiled) :
    LET e == compiled[n]
        c == made[e.made]
    IN IsCall(e.stmt, kw_turn) =>
         /\ c.id = e.id
         /\ c.opcode = IF TurnsRight(e.stmt) THEN "motion_turnright"
                       ELSE IF TurnsLeft(e.stmt) THEN "motion_turnleft"
                       ELSE other

\* C6 as it was stated: a turn whose first argument is none of right, lef and
\* left (or is missing) makes no block, and its neighbours are linked
\* directly; right alone makes motion_turnright, lef and left alone
\* motion_turnleft.
C6_UnknownTurnMakesNoBlock ==
  Lowered =>
    /\ \A n \in 1..Len(compiled) :
         IsCall(compiled[n].stmt, kw_turn)
           => (TurnsRight(compiled[n].stmt) \/ TurnsLeft(compiled[n].stmt))
    /\ TurnOpcodes("none")
    /\ Chained

\* C6, amended: a turn whose first argument is none of right, lef and left (or
\* is missing) makes exactly one block, the procedures_call fallback with no
\* inputs, and that block is chained between the blocks of its neighbours
\* like any other statement's; right alone makes motion_turnright, lef and
\* left alone motion_turnleft.
C6_UnknownTurnFallsBack ==
  Lowered =>
    /\ TurnOpcodes("procedures_call")
    /\ \A n \in 1..Len(compiled) :
         (/\ IsCall(compiled[n].stmt, kw_turn)
          /\ ~TurnsRight(compiled[n].stmt)
          /\ ~TurnsLeft(compiled[n].stmt)) => made[compiled[n].made].inputs = EmptyObj
    /\ phase = "done" =>
         \A s \in Placed(ast.body, <<>>) :
           IsCall(s.stmt, kw_turn) => Len(CompiledAt(s.path)) = 1
    /\ Chained

\* a turn of an unknown direction got its fallback block between two other
\* blocks of its list
C6_Witness ==
  /\ phase = "done"
  /\ \E n \in 1..Len(compiled) :
       /\ IsCall(compiled[n].stmt, kw_turn)
       /\ ~TurnsRight(compiled[n].stmt) /\ ~TurnsLeft(compiled[n].stmt)
       /\ made[compiled[n].made].opcode = "procedures_call"
       /\ compiled[n].prev # NoId
       /\ \E m \in 1..Len(compiled) : m > n /\ compiled[m].prev = compiled[n].id

\* the number an input slot [1, [4, number]] carries
Slot(input) == input[2][2]

\* the value a call's i-th argument gives its slot: the argument when it is
\* there, the default when it is not
ArgOr(stmt, i, default) == IF Len(stmt.args) > i THEN stmt.args[i + 1] ELSE default

\* C7: in the blocks of move, turn and wait the default (STEPS 10, DEGREES 15,
\* DURATION 1) stands only when the argument is missing; an argument that is
\* there, 0 and "" included, is what the slot carries.
C7_DefaultsOnlyWhenAbsent ==
  Lowered =>
    \A n \in 1..Len(compiled) :
      LET e == compiled[n]
          c == made[e.made]
      IN /\ IsCall(e.stmt, kw_move) =>
              /\ c.opcode = "motion_movesteps"
              /\ StrictEq(Slot(c.inputs.STEPS), ArgOr(e.stmt, 0, Whole(10)))
         /\ (IsCall(e.stmt, kw_turn) /\ (TurnsRight(e.stmt) \/ TurnsLeft(e.stmt))) =>
              /\ c.opcode \in {"motion_turnright", "motion_turnleft"}
              /\ StrictEq(Slot(c.inputs.DEGREES), ArgOr(e.stmt, 1, Whole(15)))
         /\ IsCall(e.stmt, kw_wait) =>
              /\ c.opcode = "control_wait"
              /\ StrictEq(Slot(c.inputs.DURATION), ArgOr(e.stmt, 0, Whole(1)))

\* C8: a say statement with a for(n) suffix makes looks_sayforsecs with SECS
\* n, for every number n the parser takes, 0 included; one without the suffix
\* makes looks_say.
C8_SayForSuffix ==
  Lowered =>
    \A n \in 1..Len(compiled) :
      LET e == compiled[n]
          c == made[e.made]
      IN IsCall(e.stmt, kw_say) =>
           IF e.stmt.for.typeof # "undefined"
           THEN /\ c.opcode = "looks_sayforsecs"
                /\ StrictEq(Slot(c.inputs.SECS), e.stmt.for)
           ELSE c.opcode = "looks_say"

\* C9: the parser reads no position past the end-of-input token: on input
\* that ends early it throws an error of its own, which names the token it
\* found, and never reads a property of a token that is not there.
C9_NoReadPastEof ==
  ParseEnded =>
    /\ phase # "typeerror"
    /\ phase = "throw" => error.got.type \in {"punct", "ident", "string", "number", "eof"}

\* the parser threw an error of its own at the end-of-input token, inside a
\* block
ThrewAtEofInBlock ==
  phase = "throw" /\ error.got.type = "eof" /\ error.blocks >= 1

\* the token before the end-of-input token ends a statement or opens a block
AtStatementStart ==
  /\ Len(tokens) >= 2
  /\ tokens[Len(tokens) - 1].type = "punct"
  /\ tokens[Len(tokens) - 1].value.chars \in {<<"{">>, <<";">>, <<"}">>}

\* the blocks of the tree: a body, a consequent or an alternate each
RECURSIVE CountBlocks(_)
CountBlocks(stmts) ==
  IF stmts = <<>> THEN 0
  ELSE CountBlocks(Tail(stmts))
       + (IF IsContainer(stmts[1]) THEN 1 + CountBlocks(BodyOf(stmts[1])) ELSE 0)
       + (IF stmts[1].type = "If" /\ stmts[1].alternate.typeof = "array"
          THEN 1 + CountBlocks(stmts[1].alternate.items) ELSE 0)

\* the closing braces among the tokens
ClosingBraces == Cardinality({i \in 1..Len(tokens) : IsPunct(tokens[i], <<"}">>)})

\* C10 as it was stated: whenever the end of the input is reached inside a
\* block, the error reports an unclosed block.
C10_EofInBlockIsUnclosedBlock ==
  ThrewAtEofInBlock => error.msg = "Unclosed block"

\* C10, amended: the end of the input inside a block ends the parse with an
\* error and never with a Program: every block of a returned tree was closed
\* by a closing brace of its own. The error reports an unclosed block exactly
\* when the end-of-input token stands where a statement of the block would
\* start (after an opening brace, a semicolon or a closing brace); when it
\* stands inside a statement the error is that statement's.
C10_UnclosedBlockAtStatementStart ==
  /\ ThrewAtEofInBlock => (error.msg = "Unclosed block" <=> AtStatementStart)
  /\ Parsed => CountBlocks(ast.body) <= ClosingBraces
  /\ (ParseEnded /\ ~Parsed) => error.st \in {"throw", "typeerror"}

\* the input ended where a statement of a block inside a block would start
C10_Witness ==
  /\ ThrewAtEofInBlock
  /\ error.msg = "Unclosed block"
  /\ error.blocks >= 2
====
